---- MODULE Spec2Model ----
(***************************************************************************)
(* rust-gdb: the MI record parser (src/src/parser.rs) and the debugger     *)
(* session (src/src/dbg.rs): reader task, writer task, the two bounded     *)
(* channels, the derived state can_interact / debugee_pid and the session  *)
(* API.  Text is modelled as TLA+ strings, one character at a time.        *)
(* Spec is the session; BackpressureSpec fills the output channel,         *)
(* WriterSpec sends long commands, ParserSpec runs the parser on its own,  *)
(* PidSpec prints pids up to usize::MAX, LiveSpec schedules the reader     *)
(* fairly over a fixed script.                                             *)
(***************************************************************************)
EXTENDS Integers, Sequences, FiniteSets, TLC

\* ------------------------------------------------------------------------
\* Option values (Rust Option<T>)
\* ------------------------------------------------------------------------
None == [some |-> FALSE]
Some(v) == [some |-> TRUE, val |-> v]

\* ------------------------------------------------------------------------
\* &str helpers
\* ------------------------------------------------------------------------
Ch(s, i) == SubSeq(s, i, i)
Take(s, n) == SubSeq(s, 1, n)
Drop(s, n) == SubSeq(s, n + 1, Len(s))
starts_with(s, p) == Len(s) >= Len(p) /\ Take(s, Len(p)) = p
ends_with(s, p) == Len(s) >= Len(p) /\ Drop(s, Len(s) - Len(p)) = p

Digits == {"0", "1", "2", "3", "4", "5", "6", "7", "8", "9"}
Lower == {"a", "b", "c", "d", "e", "f", "g", "h", "i", "j", "k", "l", "m",
          "n", "o", "p", "q", "r", "s", "t", "u", "v", "w", "x", "y", "z"}
Upper == {"A", "B", "C", "D", "E", "F", "G", "H", "I", "J", "K", "L", "M",
          "N", "O", "P", "Q", "R", "S", "T", "U", "V", "W", "X", "Y", "Z"}
Letters == Lower \cup Upper

\* length of the longest prefix of s whose characters all lie in cls
\* (a greedy character-class repetition anchored at the start)
RECURSIVE RunLen(_, _)
RunLen(s, cls) ==
    IF Len(s) = 0 \/ Ch(s, 1) \notin cls THEN 0
    ELSE 1 + RunLen(Drop(s, 1), cls)

\* str::replace(pat, "") for a one-character pattern
RECURSIVE RemoveChar(_, _)
RemoveChar(s, c) ==
    IF Len(s) = 0 THEN ""
    ELSE IF Ch(s, 1) = c THEN RemoveChar(Drop(s, 1), c)
    ELSE Ch(s, 1) \o RemoveChar(Drop(s, 1), c)

\* ------------------------------------------------------------------------
\* msg: class keywords
\* ------------------------------------------------------------------------
ResultClassFromStr(s) ==
    CASE s = "done" -> "Done"
      [] s = "connected" -> "Connected"
      [] s = "running" -> "Running"
      [] s = "error" -> "Error"
      [] s = "exit" -> "Exit"

AsyncClassFromStr(s) == IF s = "stopped" THEN "Stopped" ELSE "Other"

\* ------------------------------------------------------------------------
\* parser.rs
\* ------------------------------------------------------------------------
\* a parser yields Some([val |-> parsed, rest |-> remaining input]) or None

\* if let Some((val, rest)) = opt { Then([val, rest]) } else { None }
\* (opt is bound to o, so that it is evaluated once)
AndThen(opt, Then(_)) ==
    CHOOSE r \in {IF o.some THEN Then(o.val) ELSE None : o \in {opt}} : TRUE

\* Option::or
Or(a, b) == CHOOSE r \in {IF o.some THEN o ELSE b : o \in {a}} : TRUE

\* parse::<T>(data, toklen), with the value already converted by FromStr
Split(data, toklen, val) == Some([val |-> val, rest |-> Drop(data, toklen)])

MatchToken(data, n) ==
    IF n >= 1 THEN Split(data, n, Take(data, n)) ELSE None

parse_token(data) == MatchToken(data, RunLen(data, Digits))

ResultClassKeywords == <<"done", "connected", "running", "error", "exit">>

\* the first alternative of ^(done|connected|running|error|exit) that matches
RECURSIVE MatchResultClass(_, _)
MatchResultClass(data, i) ==
    IF i > Len(ResultClassKeywords) THEN None
    ELSE IF starts_with(data, ResultClassKeywords[i])
    THEN Split(data, Len(ResultClassKeywords[i]),
               ResultClassFromStr(ResultClassKeywords[i]))
    ELSE MatchResultClass(data, i + 1)

parse_result_class(data) == MatchResultClass(data, 1)

MatchAsyncClass(data, n) ==
    IF n >= 1 THEN Split(data, n, AsyncClassFromStr(Take(data, n))) ELSE None

\* variant: only the class the library recognizes is accepted
parse_async_class_Closed(data) ==
    IF starts_with(data, "stopped") THEN Split(data, 7, "Stopped") ELSE None

parse_async_class(data) == MatchAsyncClass(data, RunLen(data, Letters \cup {"-"}))

MatchVarname(data, n) == Split(data, n, Take(data, n))

parse_varname(data) ==
    IF Len(data) = 0 \/ Ch(data, 1) \notin Letters \cup {"_"} THEN None
    ELSE MatchVarname(data, 1 + RunLen(Drop(data, 1),
                                       Letters \cup Digits \cup {"_", "-"}))

\* the lengths j of the lazy run .*? with which the first alternative of
\* ^(".*?[^\\]"|"") matches at the start of data (the match is j + 2 long)
LazyRuns(data) ==
    {j \in 1..(Len(data) - 2) :
        /\ Ch(data, 1) = "\""
        /\ \A i \in 2..j : Ch(data, i) # "\n"
        /\ Ch(data, j + 1) # "\\"
        /\ Ch(data, j + 2) = "\""}

Shortest(js) == CHOOSE j \in js : \A k \in js : j <= k

\* length matched by ^(".*?[^\\]"|"") at the start of data, 0 if no match:
\* the first alternative with the shortest lazy run, else the second
MatchConstant(data, js) ==
    IF js # {} THEN Shortest(js) + 2
    ELSE IF starts_with(data, "\"\"") THEN 2
    ELSE 0

ConstantMatchLen(data) == MatchConstant(data, LazyRuns(data))

StringValue(data, n) ==
    IF n > 0 THEN Split(data, n, [kind |-> "String", str |-> Take(data, n)])
    ELSE None

parse_constant(data) == StringValue(data, ConstantMatchLen(data))

RECURSIVE parse_value(_), parse_variable(_)
RECURSIVE variable_list_loop(_, _, _), value_list_loop(_, _)

\* while !data.starts_with(end) { "," variable }
variable_list_loop(data, result, end) ==
    IF starts_with(data, end)
    THEN Some([val |-> [kind |-> "VariableList", vars |-> result],
               rest |-> Drop(data, 1)])
    ELSE IF ~starts_with(data, ",") THEN None
    ELSE AndThen(parse_variable(Drop(data, 1)),
                 LAMBDA v : variable_list_loop(v.rest, Append(result, v.val), end))

VariableListEnd(data) == IF starts_with(data, "[") THEN "]" ELSE "}"

parse_variable_list(data) ==
    IF ~starts_with(data, "{") THEN None
    ELSE IF starts_with(Drop(data, 1), VariableListEnd(data))
    THEN Some([val |-> [kind |-> "VariableList", vars |-> <<>>],
               rest |-> Drop(data, 2)])
    ELSE AndThen(parse_variable(Drop(data, 1)),
                 LAMBDA v : variable_list_loop(v.rest, <<v.val>>,
                                               VariableListEnd(data)))

\* while !data.starts_with("]") { "," value }
value_list_loop(data, result) ==
    IF starts_with(data, "]")
    THEN Some([val |-> [kind |-> "ValueList", vals |-> result],
               rest |-> Drop(data, 1)])
    ELSE IF ~starts_with(data, ",") THEN None
    ELSE AndThen(parse_value(Drop(data, 1)),
                 LAMBDA v : value_list_loop(v.rest, Append(result, v.val)))

parse_value_list(data) ==
    IF ~starts_with(data, "[") THEN None
    ELSE IF starts_with(Drop(data, 1), "]")
    THEN Some([val |-> [kind |-> "ValueList", vals |-> <<>>],
               rest |-> Drop(data, 2)])
    ELSE AndThen(parse_value(Drop(data, 1)),
                 LAMBDA v : value_list_loop(v.rest, <<v.val>>))

parse_value(data) ==
    Or(parse_constant(data),
       Or(parse_variable_list(data), parse_value_list(data)))

parse_variable(data) ==
    AndThen(parse_varname(data),
            LAMBDA var :
              IF starts_with(var.rest, "=")
              THEN AndThen(parse_value(Drop(var.rest, 1)),
                           LAMBDA v : Some([val |-> [name |-> var.val,
                                                     value |-> v.val],
                                            rest |-> v.rest]))
              ELSE None)

AtLineEnd(line) == starts_with(line, "\n") \/ starts_with(line, "\r\n")

\* while !line.starts_with("\n") && !line.starts_with("\r\n") { "," variable }
\* yields the content, with nothing left to parse
RECURSIVE record_variables_loop(_, _)
record_variables_loop(line, result) ==
    IF AtLineEnd(line) THEN Some([val |-> result, rest |-> ""])
    ELSE IF ~starts_with(line, ",") THEN None
    ELSE AndThen(parse_variable(Drop(line, 1)),
                 LAMBDA v : record_variables_loop(v.rest, Append(result, v.val)))

\* the part of a result or async line after the class
record_content(line) ==
    IF AtLineEnd(line) THEN Some([val |-> <<>>, rest |-> ""])
    ELSE IF ~starts_with(line, ",") THEN None
    ELSE AndThen(parse_variable(Drop(line, 1)),
                 LAMBDA v : record_variables_loop(v.rest, <<v.val>>))

\* the optional token: [val |-> Option token, rest |-> line after it]
OptionalToken(line, tok) ==
    IF tok.some THEN [val |-> Some(tok.val.val), rest |-> tok.val.rest]
    ELSE [val |-> None, rest |-> line]

ResultAfterToken(t) ==
    IF ~starts_with(t.rest, "^") THEN None
    ELSE AndThen(parse_result_class(Drop(t.rest, 1)),
                 LAMBDA cls :
                   AndThen(record_content(cls.rest),
                           LAMBDA content :
                             Some([token |-> t.val, class |-> cls.val,
                                   content |-> content.val])))

parse_result_line(line) == ResultAfterToken(OptionalToken(line, parse_token(line)))

AsyncKind(marker) ==
    CASE marker = "=" -> "Notify"
      [] marker = "+" -> "Status"
      [] marker = "*" -> "Exec"

AsyncAfterToken(t) ==
    IF Len(t.rest) = 0 \/ Ch(t.rest, 1) \notin {"=", "+", "*"} THEN None
    ELSE AndThen(parse_async_class(Drop(t.rest, 1)),
                 LAMBDA cls :
                   AndThen(record_content(cls.rest),
                           LAMBDA content :
                             Some([kind |-> AsyncKind(Ch(t.rest, 1)),
                                   token |-> t.val, class |-> cls.val,
                                   content |-> content.val])))

parse_async_line(line) == AsyncAfterToken(OptionalToken(line, parse_token(line)))

StreamKind(marker) ==
    CASE marker = "~" -> "Console"
      [] marker = "@" -> "Target"
      [] marker = "&" -> "Log"

parse_stream_line(line) ==
    IF Len(line) = 0 \/ Ch(line, 1) \notin {"~", "@", "&"} THEN None
    ELSE AndThen(parse_constant(Drop(line, 1)),
                 LAMBDA c :
                   IF c.rest = "\n" \/ c.rest = "\r\n"
                   THEN Some([kind |-> StreamKind(Ch(line, 1)),
                              text |-> c.val.str])
                   ELSE None)

\* Ok(Record::X(msg)) is Some([type |-> X, msg |-> msg])
Wrap(type, opt) ==
    IF opt.some THEN Some([type |-> type, msg |-> opt.val]) ELSE None

\* Ok(record) is Some(record); Err(ParseError) is None
parse_line(line) ==
    Or(Wrap("Result", parse_result_line(line)),
       Or(Wrap("Async", parse_async_line(line)),
          Wrap("Stream", parse_stream_line(line))))

\* ------------------------------------------------------------------------
\* usize and str::parse::<usize>
\* ------------------------------------------------------------------------
\* usize values are kept as canonical decimal numerals (no sign, no leading
\* zero), so that the full 64-bit range is represented exactly
UsizeMax == "18446744073709551615"

DigitSeq == <<"0", "1", "2", "3", "4", "5", "6", "7", "8", "9">>
DigitVal(c) == CHOOSE n \in 0..9 : DigitSeq[n + 1] = c

RECURSIVE StripLeadingZeros(_)
StripLeadingZeros(s) ==
    IF Len(s) > 1 /\ Ch(s, 1) = "0" THEN StripLeadingZeros(Drop(s, 1)) ELSE s

\* a > b for two numerals of equal length
RECURSIVE NumeralGreater(_, _)
NumeralGreater(a, b) ==
    IF Len(a) = 0 THEN FALSE
    ELSE IF Ch(a, 1) # Ch(b, 1) THEN DigitVal(Ch(a, 1)) > DigitVal(Ch(b, 1))
    ELSE NumeralGreater(Drop(a, 1), Drop(b, 1))

ExceedsUsize(n) ==
    \/ Len(n) > Len(UsizeMax)
    \/ Len(n) = Len(UsizeMax) /\ NumeralGreater(n, UsizeMax)

\* Ok(n) is Some(n); Err(ParseIntError) is None
InUsize(n) == IF ExceedsUsize(n) THEN None ELSE Some(n)

ParseDigits(body) ==
    IF Len(body) = 0 \/ RunLen(body, Digits) # Len(body) THEN None
    ELSE InUsize(StripLeadingZeros(body))

parse_usize(s) == ParseDigits(IF starts_with(s, "+") THEN Drop(s, 1) ELSE s)

\* ------------------------------------------------------------------------
\* dbg.rs: the session
\* ------------------------------------------------------------------------
OutputChannelCapacity == 100
InputChannelCapacity == 100

\* OS process id of the spawned debugger (tokio Child), never read by dbg.rs
ChildId == "4000"

\* bounds of the model: a run is either output-heavy (many kinds of line,
\* few API calls) or API-heavy (few kinds of line, many API calls)
MaxLines == 3
FewCalls == 1
MaxCalls == 2
FewLines == 2
MaxPolls == 1

\* lines the debugger may print on stdout (as next_line() returns them,
\* without the terminator)
GdbLines ==
    { "(gdb) ",
      "^bogus",
      "^running",
      "5^done,pid=\"5\"",
      "*stopped,pid=\"5\"",
      "+stopped",
      "*running",
      "~\"x\"",
      "=stopped,pid=\"9\"",
      "=foo,pid=\"42\"",
      "=bar,pid=\"7\"",
      "=foo,pid=[\"1\"],pid=\"abc\"" }

ApiGdbLines == {"^running", "=foo,pid=\"42\"", "*stopped"}

\* lines of a run about the pid: notifications with pids up to usize::MAX
\* and one past it
PidLines ==
    { "^running",
      "=foo,pid=\"0\"",
      "=foo,pid=\"42\"",
      "=foo,pid=\"18446744073709551614\"",
      "=foo,pid=\"18446744073709551615\"",
      "=foo,pid=\"18446744073709551616\"" }

\* commands the API user may send
Cmds == {"-exec-run", "-exec-run\n", ""}

\* capacity of the buffer of BufWriter::new(stdin) (tokio's default, 8 KiB)
BufWriterCapacity == 8192

RECURSIVE Fill(_, _)
Fill(s, n) == IF Len(s) >= n THEN Take(s, n) ELSE Fill(s \o s, n)

\* a command as long as the writer's buffer
LongCmd == Fill("x", BufWriterCapacity)

\* commands of a run that exercises the writer task
WriterCmds == {"-exec-run", "-exec-next\n", LongCmd}
CmdsOf(l) == IF l = "writer" THEN WriterCmds ELSE Cmds

Loads == {"output", "api"}

\* a run that fills the output channel: the debugger first prints FillerLines
\* result lines while the API user is idle, then any of ApiGdbLines
FillerLine == "^done"
FillerLines == OutputChannelCapacity - FewLines

\* a run in which the debugger prints a fixed script while the debuggee
\* runs: a Running result, result lines up to what the output channel and the
\* reader can hold, then that the debuggee stopped, then its pid
LiveLast == OutputChannelCapacity + FewLines + 1
StoppedLines == {"*stopped", "*stopped,a=\"\",b=\"x\""}
LiveLines(n) ==
    CASE n = 1 -> {"^running"}
      [] n = LiveLast - 1 -> StoppedLines
      [] n = LiveLast -> {"=foo,pid=\"42\""}
      [] OTHER -> {FillerLine}

\* a parser run: no text given, nothing parsed
NoData == [text |-> "", form |-> [kind |-> "none"]]
NotParsed == [fn |-> "none", ret |-> None]

VARIABLES
    can_interact,   \* Debugger.can_interact
    debugee_pid,    \* Debugger.debugee_pid (UsizeMax: not known)
    gdb_pid,        \* Debugger.gdb_pid (UsizeMax: not known)
    alive,          \* the Debugger object has not been dropped
    reader_pc,      \* reader task: "next_line", "send" or "done"
    pending,        \* the record the reader is sending, if any
    stdout_eof,     \* the debugger's stdout has reached end of stream
    polls,          \* reads of the ended stream made by the reader
    out_chan,       \* output channel (records)
    rx_open,        \* the Receiver of the output channel has not been dropped
    in_chan,        \* input channel (command strings)
    writer_pc,      \* writer task: "recv", "flush" or "done"
    wbuf,           \* the command held by the writer's BufWriter
    gdb_stdin,      \* what has reached the debugger's stdin, in order
    reading,        \* read in progress: "none", "message" or "result"
    read_from,      \* number of records taken when the read began
    call,           \* the last API call: number, operation, argument, result
    signals,        \* signals requested from the OS, in order
    emitted,        \* history: the lines the reader has read
    taken,          \* history: the records received from the output channel
    recv_none,      \* recv() on the output channel has returned None
    load,           \* the kind of run: "output", "api", "full", "parser", ...
    data,           \* parser run: the text given to the parser, and its form
    parsed          \* parser run: what the parser returned for it

vars == <<can_interact, debugee_pid, gdb_pid, alive, reader_pc, pending,
          stdout_eof, polls, out_chan, rx_open, in_chan, writer_pc, wbuf,
          gdb_stdin, reading, read_from, call, signals, emitted, taken,
          recv_none, load, data, parsed>>

readerVars == <<reader_pc, pending, stdout_eof, polls, emitted>>
LineBudget ==
    CASE load = "output" -> MaxLines
      [] load = "full" -> OutputChannelCapacity + FewLines
      [] load = "live" -> LiveLast
      [] OTHER -> FewLines
CallBudget == IF load \in {"output", "full"} THEN FewCalls ELSE MaxCalls
WriterOps == {"send_cmd_raw", "drop"}
FullOps == {"read_message_record", "read_result_record", "drop_receiver"}
LiveOps == {"read_message_record"}
PidOps == {"get_debuggee_pid", "interrupt", "terminate"}
LinesOf(l) ==
    CASE l = "output" -> GdbLines
      [] l = "pid" -> PidLines
      [] OTHER -> ApiGdbLines
\* the lines the debugger may print as its n-th line
LinesAt(l, n) ==
    CASE l = "full" -> IF n <= FillerLines THEN {FillerLine} ELSE ApiGdbLines
      [] l = "live" -> LiveLines(n)
      [] OTHER -> LinesOf(l)
trackVars == <<can_interact, debugee_pid>>
writerVars == <<in_chan, writer_pc, wbuf, gdb_stdin>>
readVars == <<reading, read_from, taken, recv_none>>
runVars == <<load, data, parsed>>

\* the session as Debugger::start() returns it
Started ==
    /\ can_interact = TRUE
    /\ debugee_pid = UsizeMax
    /\ gdb_pid = UsizeMax
    /\ alive = TRUE
    /\ reader_pc = "next_line"
    /\ pending = None
    /\ stdout_eof = FALSE
    /\ polls = 0
    /\ out_chan = <<>>
    /\ rx_open = TRUE
    /\ in_chan = <<>>
    /\ writer_pc = "recv"
    /\ wbuf = ""
    /\ gdb_stdin = <<>>
    /\ reading = "none"
    /\ read_from = 0
    /\ call = [n |-> 0, op |-> "start", arg |-> "", ret |-> None]
    /\ signals = <<>>
    /\ emitted = <<>>
    /\ taken = <<>>
    /\ recv_none = FALSE

Init ==
    /\ Started
    /\ load \in Loads
    /\ data = NoData
    /\ parsed = NotParsed

\* in an output-heavy run the API user only reads records, keeps the session
\* and the Receiver, and the debugger's stdout stays open and readable
OutputOps == {"read_message_record", "read_result_record"}
Allowed(op) ==
    CASE load = "output" -> op \in OutputOps
      [] load = "full" -> op \in FullOps /\ Len(emitted) >= FillerLines
      [] load = "writer" -> op \in WriterOps
      [] load = "pid" -> op \in PidOps
      [] load = "live" -> op \in LiveOps
      [] OTHER -> TRUE
CanCall(op) == alive /\ call.n < CallBudget /\ Allowed(op)

\* --- state tracking in process_line --------------------------------------
\* variant: only Exec records of class Stopped set the flag
CanInteractAfter_ExecOnly(resp, cur) ==
    IF resp.type = "Async"
    THEN IF resp.msg.kind = "Exec" /\ resp.msg.class = "Stopped"
         THEN TRUE ELSE cur
    ELSE IF resp.type = "Result"
    THEN IF resp.msg.class = "Running" THEN FALSE ELSE cur
    ELSE cur

\* variant: a Running result does not clear the flag
CanInteractAfter_NoRunning(resp, cur) ==
    IF resp.type = "Async"
    THEN IF resp.msg.kind \in {"Exec", "Status"} /\ resp.msg.class = "Stopped"
         THEN TRUE ELSE cur
    ELSE cur

CanInteractAfter(resp, cur) ==
    IF resp.type = "Async"
    THEN IF resp.msg.kind \in {"Exec", "Status"} /\ resp.msg.class = "Stopped"
         THEN TRUE ELSE cur
    ELSE IF resp.type = "Result"
    THEN IF resp.msg.class = "Running" THEN FALSE ELSE cur
    ELSE cur

\* for var in &s.content: the first variable named pid whose value is a
\* String that parses as usize once its quotes are removed
RECURSIVE FindPid(_)
PidOfVar(var) ==
    IF var.name = "pid" /\ var.value.kind = "String"
    THEN parse_usize(RemoveChar(var.value.str, "\""))
    ELSE None

FindPid(content) ==
    IF Len(content) = 0 THEN None
    ELSE Or(PidOfVar(Head(content)), FindPid(Tail(content)))

\* variant: a later pid overwrites a known one
DebugeePidAfter_Overwrite(resp, cur) ==
    IF /\ resp.type = "Async"
       /\ resp.msg.kind = "Notify"
       /\ resp.msg.class = "Other"
    THEN Or(FindPid(resp.msg.content), Some(cur)).val
    ELSE cur

\* variant: a Notify record of any class may carry the pid
DebugeePidAfter_AnyClass(resp, cur) ==
    IF /\ resp.type = "Async"
       /\ resp.msg.kind = "Notify"
       /\ cur = UsizeMax
    THEN Or(FindPid(resp.msg.content), Some(cur)).val
    ELSE cur

DebugeePidAfter(resp, cur) ==
    IF /\ resp.type = "Async"
       /\ resp.msg.kind = "Notify"
       /\ resp.msg.class = "Other"
       /\ cur = UsizeMax
    THEN Or(FindPid(resp.msg.content), Some(cur)).val
    ELSE cur

WithNewline(line) == IF ends_with(line, "\n") THEN line ELSE line \o "\n"

\* where the reader goes after a line that did not parse
\* variant: a line that does not parse ends the reader
AfterParseError_Stop == "done"

AfterParseError == "next_line"

\* process_line from the result of parse_line up to the send
\* variant: a line that does not parse marks the debugger as interactive
process_line_ResetOnError(resp) ==
    IF resp.some
    THEN /\ can_interact' = CanInteractAfter(resp.val, can_interact)
         /\ debugee_pid' = DebugeePidAfter(resp.val, debugee_pid)
         /\ pending' = resp
         /\ reader_pc' = "send"
    ELSE /\ reader_pc' = AfterParseError
         /\ can_interact' = TRUE
         /\ UNCHANGED <<pending, debugee_pid>>

process_line(resp) ==
    IF resp.some
    THEN /\ can_interact' = CanInteractAfter(resp.val, can_interact)
         /\ debugee_pid' = DebugeePidAfter(resp.val, debugee_pid)
         /\ pending' = resp
         /\ reader_pc' = "send"
    ELSE /\ reader_pc' = AfterParseError
         /\ UNCHANGED <<pending, trackVars>>

\* --- reader task ----------------------------------------------------------
\* next_line() returned Ok(Some(line)): skip a prompt, else process_line
ReaderNextLine ==
    /\ reader_pc = "next_line"
    /\ ~stdout_eof
    /\ Len(emitted) < LineBudget
    /\ \E line \in LinesAt(load, Len(emitted) + 1) :
          /\ emitted' = Append(emitted, line)
          /\ IF starts_with(line, "(gdb)")
             THEN UNCHANGED <<reader_pc, pending, trackVars>>
             ELSE \E resp \in {parse_line(WithNewline(line))} :
                     process_line(resp)
    /\ UNCHANGED <<runVars, gdb_pid, alive, stdout_eof, polls, out_chan, rx_open,
                   writerVars, readVars, call, signals>>

\* sender.send(resp).await: completes when the channel has room, fails (and
\* the record is dropped) when the Receiver is gone
\* variant: the record is put at the front of the channel
SendOutput_Front(chan, rec) == <<rec>> \o chan

SendOutput(chan, rec) == Append(chan, rec)

\* the bounded channel has a free slot
\* variant: the channel is unbounded
HasRoom_Unbounded(chan) == TRUE

HasRoom(chan) == Len(chan) < OutputChannelCapacity

ReaderSend ==
    /\ reader_pc = "send"
    /\ IF rx_open
       THEN /\ HasRoom(out_chan)
            /\ out_chan' = SendOutput(out_chan, pending.val)
       ELSE UNCHANGED out_chan
    /\ pending' = None
    /\ reader_pc' = "next_line"
    /\ UNCHANGED <<runVars, trackVars, gdb_pid, alive, stdout_eof, polls, rx_open,
                   writerVars, readVars, call, signals, emitted>>

\* the debugger closes its stdout
GdbStdoutEnds ==
    /\ Allowed("stdout_ends")
    /\ ~stdout_eof
    /\ stdout_eof' = TRUE
    /\ UNCHANGED <<runVars, trackVars, gdb_pid, alive, reader_pc, pending, polls,
                   out_chan, rx_open, writerVars, readVars, call, signals,
                   emitted>>

\* next_line() returned Ok(None): the while-let loop goes round again
ReaderNextLineEof ==
    /\ reader_pc = "next_line"
    /\ stdout_eof
    /\ polls < MaxPolls
    /\ polls' = polls + 1
    /\ UNCHANGED <<runVars, trackVars, gdb_pid, alive, reader_pc, pending, stdout_eof,
                   out_chan, rx_open, writerVars, readVars, call, signals,
                   emitted>>

\* next_line() returned Err (an I/O error, or bytes that are not UTF-8): the
\* while-let loop ends and the task finishes, dropping the Sender
ReaderNextLineErr ==
    /\ Allowed("stdout_error")
    /\ reader_pc = "next_line"
    /\ ~stdout_eof
    /\ reader_pc' = "done"
    /\ UNCHANGED <<runVars, trackVars, gdb_pid, alive, pending, stdout_eof, polls,
                   out_chan, rx_open, writerVars, readVars, call, signals,
                   emitted>>

\* --- writer task ----------------------------------------------------------
\* the byte counts a write of len bytes to the pipe may return: the pipe takes
\* all of them or, when it has less room, only the first part (any count from
\* 1 to len; half of them stands for the partial writes)
PipeWriteCounts(len) == {len \div 2, len}

\* BufWriter::write(buf), with the buffer empty after the last flush: a buf
\* shorter than the buffer is copied into it whole; a longer one goes to the
\* pipe in one write, whose byte count the writer task ignores.
\* Yields <<buffer, bytes written to the pipe>>
BufWrite(buf, n) ==
    IF Len(buf) >= BufWriterCapacity THEN <<"", Take(buf, n)>> ELSE <<buf, "">>

\* what the pipe holds after these bytes have been written to it
PipeAfter(pipe, bytes) == IF bytes = "" THEN pipe ELSE Append(pipe, bytes)

\* stdin_receiver.recv() returned Some(line); writer.write(line.as_bytes())
WriterRecv ==
    /\ writer_pc = "recv"
    /\ Len(in_chan) > 0
    /\ \E n \in PipeWriteCounts(Len(Head(in_chan))) :
          /\ wbuf' = BufWrite(Head(in_chan), n)[1]
          /\ gdb_stdin' = PipeAfter(gdb_stdin, BufWrite(Head(in_chan), n)[2])
    /\ in_chan' = Tail(in_chan)
    /\ writer_pc' = "flush"
    /\ UNCHANGED <<runVars, trackVars, gdb_pid, alive, readerVars, out_chan, rx_open,
                   readVars, call, signals>>

\* writer.flush(): the whole buffer goes to the pipe
WriterFlush ==
    /\ writer_pc = "flush"
    /\ gdb_stdin' = PipeAfter(gdb_stdin, wbuf)
    /\ wbuf' = ""
    /\ writer_pc' = "recv"
    /\ UNCHANGED <<runVars, trackVars, gdb_pid, alive, readerVars, out_chan, rx_open,
                   in_chan, readVars, call, signals>>

\* recv() returned None: every Sender is gone and the channel is empty
WriterEnd ==
    /\ writer_pc = "recv"
    /\ Len(in_chan) = 0
    /\ ~alive
    /\ writer_pc' = "done"
    /\ UNCHANGED <<runVars, trackVars, gdb_pid, alive, readerVars, out_chan, rx_open,
                   in_chan, wbuf, gdb_stdin, readVars, call, signals>>

\* --- session API ----------------------------------------------------------
Called(op, arg, ret) == [n |-> call.n + 1, op |-> op, arg |-> arg, ret |-> ret]

\* variant: a newline is appended to every command
CmdToSend_AlwaysAppend(cmd) == cmd \o "\n"

CmdToSend(cmd) == IF ends_with(cmd, "\n") THEN cmd ELSE cmd \o "\n"

send_cmd_raw ==
    /\ CanCall("send_cmd_raw")
    /\ reading = "none"
    /\ Len(in_chan) < InputChannelCapacity
    /\ \E cmd \in CmdsOf(load) :
          /\ in_chan' = Append(in_chan, CmdToSend(cmd))
          /\ call' = Called("send_cmd_raw", cmd, None)
    /\ UNCHANGED <<runVars, trackVars, gdb_pid, alive, readerVars, out_chan, rx_open,
                   writer_pc, wbuf, gdb_stdin, readVars, signals>>

can_send_commands ==
    /\ CanCall("can_send_commands")
    /\ call' = Called("can_send_commands", "", Some(can_interact))
    /\ UNCHANGED <<runVars, trackVars, gdb_pid, alive, readerVars, out_chan, rx_open,
                   writerVars, readVars, signals>>

GetDebuggeePid(pid) == IF pid # UsizeMax THEN Some(pid) ELSE None

get_debuggee_pid ==
    /\ CanCall("get_debuggee_pid")
    /\ call' = Called("get_debuggee_pid", "", Some(GetDebuggeePid(debugee_pid)))
    /\ UNCHANGED <<runVars, trackVars, gdb_pid, alive, readerVars, out_chan, rx_open,
                   writerVars, readVars, signals>>

\* what interrupt() does: "noop" (already interactive), "fail" (pid not
\* known) or "signal"
\* variant: the signal is requested without looking at the pid
InterruptPath_NoPidCheck(ci, pid) == IF ci THEN "noop" ELSE "signal"

InterruptPath(ci, pid) ==
    IF ci THEN "noop" ELSE IF pid = UsizeMax THEN "fail" ELSE "signal"

\* variant: a successful interrupt request marks the debugger as interactive
interrupt_SetsFlag ==
    /\ CanCall("interrupt")
    /\ LET path == InterruptPath(can_interact, debugee_pid)
       IN  CASE path = "noop" ->
                  /\ call' = Called("interrupt", "", Some(TRUE))
                  /\ UNCHANGED <<signals, can_interact>>
             [] path = "fail" ->
                  /\ call' = Called("interrupt", "", Some(FALSE))
                  /\ UNCHANGED <<signals, can_interact>>
             [] path = "signal" ->
                  \E ok \in BOOLEAN :
                     /\ signals' = Append(signals,
                                     [pid |-> debugee_pid, sig |-> "Interrupt",
                                      ok |-> ok])
                     /\ call' = Called("interrupt", "", Some(ok))
                     /\ can_interact' = (can_interact \/ ok)
    /\ UNCHANGED <<runVars, debugee_pid, gdb_pid, alive, readerVars, out_chan,
                   rx_open, writerVars, readVars>>

interrupt ==
    /\ CanCall("interrupt")
    /\ LET path == InterruptPath(can_interact, debugee_pid)
       IN  CASE path = "noop" ->
                  /\ call' = Called("interrupt", "", Some(TRUE))
                  /\ UNCHANGED signals
             [] path = "fail" ->
                  /\ call' = Called("interrupt", "", Some(FALSE))
                  /\ UNCHANGED signals
             [] path = "signal" ->
                  \E ok \in BOOLEAN :
                     /\ signals' = Append(signals,
                                     [pid |-> debugee_pid, sig |-> "Interrupt",
                                      ok |-> ok])
                     /\ call' = Called("interrupt", "", Some(ok))
    /\ UNCHANGED <<runVars, trackVars, gdb_pid, alive, readerVars, out_chan, rx_open,
                   writerVars, readVars>>

\* the kill requests terminate() makes, in order
TerminateSignals(dpid, gpid) ==
    (IF dpid # UsizeMax THEN <<[pid |-> dpid, sig |-> "Kill", ok |-> TRUE]>>
     ELSE <<>>)
    \o (IF gpid # UsizeMax THEN <<[pid |-> gpid, sig |-> "Kill", ok |-> TRUE]>>
        ELSE <<>>)

terminate ==
    /\ CanCall("terminate")
    /\ signals' = signals \o TerminateSignals(debugee_pid, gdb_pid)
    /\ call' = Called("terminate", "", None)
    /\ UNCHANGED <<runVars, trackVars, gdb_pid, alive, readerVars, out_chan, rx_open,
                   writerVars, readVars>>

\* impl Drop for Debugger: terminate(), then the fields (the input Sender
\* among them) are dropped
drop ==
    /\ alive
    /\ Allowed("drop")
    /\ reading = "none"
    /\ signals' = signals \o TerminateSignals(debugee_pid, gdb_pid)
    /\ call' = [n |-> call.n, op |-> "drop", arg |-> "", ret |-> None]
    /\ alive' = FALSE
    /\ UNCHANGED <<runVars, trackVars, gdb_pid, readerVars, out_chan, rx_open,
                   writerVars, readVars>>

\* the caller drops the Receiver returned by start()
DropReceiver ==
    /\ Allowed("drop_receiver")
    /\ rx_open
    /\ reading = "none"
    /\ rx_open' = FALSE
    /\ out_chan' = <<>>
    /\ UNCHANGED <<runVars, trackVars, gdb_pid, alive, readerVars, writerVars,
                   readVars, call, signals>>

BeginRead(kind) ==
    /\ CanCall(kind)
    /\ rx_open
    /\ reading = "none"
    /\ reading' = kind
    /\ read_from' = Len(taken)
    /\ call' = Called(kind, "", None)
    /\ UNCHANGED <<runVars, trackVars, gdb_pid, alive, readerVars, out_chan, rx_open,
                   writerVars, taken, recv_none, signals>>

read_message_record_call == BeginRead("read_message_record")

read_result_record_call == BeginRead("read_result_record")

\* does the read in progress return this record?
\* variant: read_result_record returns whatever record comes first
ReadReturns_AnyRecord(kind, record) == TRUE

ReadReturns(kind, record) ==
    IF kind = "read_result_record" THEN record.type = "Result" ELSE TRUE

\* output_channel.recv() returned Some(record)
ReadRecv ==
    /\ reading # "none"
    /\ Len(out_chan) > 0
    /\ LET record == Head(out_chan)
       IN  /\ out_chan' = Tail(out_chan)
           /\ taken' = Append(taken, record)
           /\ IF ReadReturns(reading, record)
              THEN /\ reading' = "none"
                   /\ call' = [call EXCEPT !.ret = Some(record)]
              ELSE UNCHANGED <<reading, call>>
    /\ UNCHANGED <<runVars, trackVars, gdb_pid, alive, readerVars, rx_open,
                   writerVars, read_from, recv_none, signals>>

\* output_channel.recv() returned None (the reader task has ended, dropping
\* the Sender, and the channel is empty): `if let Some` does not match and
\* the loop of read_message_record goes round again, to the same recv()
ReadRecvNone ==
    /\ reading # "none"
    /\ reader_pc = "done"
    /\ Len(out_chan) = 0
    /\ recv_none' = TRUE
    /\ UNCHANGED <<runVars, trackVars, gdb_pid, alive, readerVars, out_chan,
                   rx_open, writerVars, reading, read_from, taken, call,
                   signals>>

Next ==
    \/ ReaderNextLine
    \/ ReaderSend
    \/ GdbStdoutEnds
    \/ ReaderNextLineEof
    \/ ReaderNextLineErr
    \/ WriterRecv
    \/ WriterFlush
    \/ WriterEnd
    \/ send_cmd_raw
    \/ can_send_commands
    \/ get_debuggee_pid
    \/ interrupt
    \/ terminate
    \/ drop
    \/ DropReceiver
    \/ read_message_record_call
    \/ read_result_record_call
    \/ ReadRecv
    \/ ReadRecvNone

Spec == Init /\ [][Next]_vars

\* the run that fills the output channel
BackpressureInit ==
    /\ Started
    /\ load = "full"
    /\ data = NoData
    /\ parsed = NotParsed

BackpressureNext ==
    \/ ReaderNextLine
    \/ ReaderSend
    \/ read_message_record_call
    \/ read_result_record_call
    \/ ReadRecv
    \/ DropReceiver

BackpressureSpec == BackpressureInit /\ [][BackpressureNext]_vars

\* the run that exercises the writer task
WriterInit ==
    /\ Started
    /\ load = "writer"
    /\ data = NoData
    /\ parsed = NotParsed

WriterNext ==
    \/ send_cmd_raw
    \/ WriterRecv
    \/ WriterFlush
    \/ drop
    \/ WriterEnd

WriterSpec == WriterInit /\ [][WriterNext]_vars

\* a run about the pid: the debugger prints PidLines, the API user asks for
\* the pid, interrupts and terminates
PidInit ==
    /\ Started
    /\ load = "pid"
    /\ data = NoData
    /\ parsed = NotParsed

PidNext ==
    \/ ReaderNextLine
    \/ ReaderSend
    \/ get_debuggee_pid
    \/ interrupt
    \/ terminate

PidSpec == PidInit /\ [][PidNext]_vars

\* the run of the fixed script: the reader task is scheduled fairly, the API
\* user may or may not take records
LiveInit ==
    /\ Started
    /\ load = "live"
    /\ data = NoData
    /\ parsed = NotParsed

LiveNext ==
    \/ ReaderNextLine
    \/ ReaderSend
    \/ read_message_record_call
    \/ ReadRecv

LiveSpec ==
    /\ LiveInit
    /\ [][LiveNext]_vars
    /\ WF_vars(ReaderNextLine)
    /\ WF_vars(ReaderSend)

\* ------------------------------------------------------------------------
\* the parser on its own (lib.rs, tests::parse_stuff): one text, parsed once
\* ------------------------------------------------------------------------
MaxText == 4
MaxVars == 2

\* texts of up to n characters over the characters that matter to a quoted
\* string: the quote, the backslash, a letter and the separator
QuoteAlphabet == {"\"", "\\", "a", ","}
Extend(texts) == texts \cup {t \o c : t \in texts, c \in QuoteAlphabet}
RECURSIVE Texts(_)
Texts(n) == IF n = 0 THEN {""} ELSE Extend(Texts(n - 1))

\* texts that begin with a quote
QuotedTexts == {"\"" \o t : t \in Texts(MaxText - 1)}

\* values as the wire text denotes them
Str(text) == [kind |-> "String", text |-> text]
Obj(members) == [kind |-> "VariableList", vars |-> members]
Arr(elements) == [kind |-> "ValueList", vals |-> elements]
Member(name, value) == [name |-> name, value |-> value]

\* variables on the wire, each with the name and the value it denotes
VarPool ==
    { [text |-> "a=\"x\"", var |-> Member("a", Str("x"))],
      [text |-> "a=\"y\"", var |-> Member("a", Str("y"))],
      [text |-> "b=\"\"", var |-> Member("b", Str(""))],
      [text |-> "c={d=\"z\",d=\"\"}",
       var |-> Member("c", Obj(<<Member("d", Str("z")), Member("d", Str(""))>>))],
      [text |-> "e=[\"x\",[],{}]",
       var |-> Member("e", Arr(<<Str("x"), Arr(<<>>), Obj(<<>>)>>))] }

VarSeqs == UNION {[1..n -> VarPool] : n \in 0..MaxVars}

RECURSIVE ContentText(_)
ContentText(vs) ==
    IF Len(vs) = 0 THEN "" ELSE "," \o Head(vs).text \o ContentText(Tail(vs))

Tokens == {"", "42"}
Terminators == {"\n", "\r\n"}
ResultKeywords == {"done", "connected", "running", "error", "exit"}

\* [digits]^class[,name=value]* and the line end
ResultLines ==
    { [text |-> tok \o "^" \o cls \o ContentText(vs) \o term,
       form |-> [kind |-> "result", token |-> tok, class |-> cls, vars |-> vs]] :
        tok \in Tokens, cls \in ResultKeywords, vs \in VarSeqs,
        term \in Terminators }

ClassWords ==
    ResultKeywords \cup {"stopped", "foo", "thread-group-added", "-", "Done",
                         "donee", "don", "x-"}
\* what may follow the class: nothing, variables, or text that is neither
AfterClass == {"", ",a=\"x\"", ",a=\"x\",b={}", ",", " ", ",a=", "9"}

\* [digits] marker class rest, and the line end
ClassedLines ==
    { [text |-> tok \o marker \o word \o rest \o term,
       form |-> [kind |-> "classed", token |-> tok, marker |-> marker,
                 class |-> word, rest |-> rest \o term]] :
        tok \in Tokens, marker \in {"^", "=", "+", "*"}, word \in ClassWords,
        rest \in AfterClass, term \in Terminators }

StreamBodies == QuotedTexts \cup {"", "a", "{}", "[]", "{a=\"x\"}", "[\"x\"]"}

\* marker body, and the line end
StreamLines ==
    { [text |-> marker \o body \o term,
       form |-> [kind |-> "stream", marker |-> marker, body |-> body,
                 term |-> term]] :
        marker \in {"~", "@", "&"}, body \in StreamBodies,
        term \in Terminators }

ConstantTexts == {[text |-> t, form |-> [kind |-> "constant"]] : t \in QuotedTexts}

\* a well-formed variable whose value holds two empty strings side by side
EmptyPair ==
    [text |-> "f=[\"\",\"\"]", var |-> Member("f", Arr(<<Str(""), Str("")>>))]

DefectVarSeqs == UNION {[1..n -> VarPool \cup {EmptyPair}] : n \in 1..MaxVars}

\* the characters between the quotes of the strings above; every other
\* character of a content text is part of the syntax
Payload == {"x", "y", "z"}
Closers == {"}", "]"}

\* text with one character of the syntax left out: a name (bad name), an
\* '=', a separator, a quote, an opening or a closing bracket (unterminated)
Deleted(text) ==
    {Take(text, i - 1) \o Drop(text, i) :
        i \in {k \in 1..Len(text) : Ch(text, k) \notin Payload}}

\* text with a comma put in before a closing bracket or at the end
\* (trailing comma)
CommaBefore(text) ==
    {Take(text, i - 1) \o "," \o Drop(text, i - 1) :
        i \in {k \in 1..(Len(text) + 1) :
                  k = Len(text) + 1 \/ Ch(text, k) \in Closers}}

RecordHeads == {"^done", "42*stopped"}

\* a record head, a content text with one defect, and the line end
MalformedLines ==
    { [text |-> head \o body \o "\n",
       form |-> [kind |-> "malformed", head |-> head, body |-> body]] :
        head \in RecordHeads,
        body \in UNION {Deleted(ContentText(vs)) \cup CommaBefore(ContentText(vs)) :
                          vs \in DefectVarSeqs} }

ParserInputs ==
    ResultLines \cup ClassedLines \cup StreamLines \cup ConstantTexts
      \cup MalformedLines

sessionVars ==
    <<trackVars, gdb_pid, alive, readerVars, out_chan, rx_open, writerVars,
      readVars, call, signals>>

ParserInit ==
    /\ Started
    /\ load = "parser"
    /\ data \in ParserInputs
    /\ parsed = NotParsed

\* parser::parse_line(data)
ParseLine ==
    /\ load = "parser"
    /\ parsed = NotParsed
    /\ data.form.kind # "constant"
    /\ parsed' = [fn |-> "parse_line", ret |-> parse_line(data.text)]
    /\ UNCHANGED <<load, data, sessionVars>>

\* parser::parse_constant(data)
ParseConstant ==
    /\ load = "parser"
    /\ parsed = NotParsed
    /\ data.form.kind = "constant"
    /\ parsed' = [fn |-> "parse_constant", ret |-> parse_constant(data.text)]
    /\ UNCHANGED <<load, data, sessionVars>>

ParserNext == ParseLine \/ ParseConstant

ParserSpec == ParserInit /\ [][ParserNext]_vars

\* ------------------------------------------------------------------------
\* Properties
\* ------------------------------------------------------------------------
\* the record of a line of stdout, if it has one
RecordOfLine(line) ==
    IF starts_with(line, "(gdb)") THEN None ELSE parse_line(WithNewline(line))

\* the record of every line the debugger may print
RecordTable == [line \in GdbLines \cup ApiGdbLines |-> RecordOfLine(line)]

OptSeq(opt) == IF opt.some THEN <<opt.val>> ELSE <<>>

\* the records of a sequence of lines, in order
RECURSIVE RecordsOf(_)
RecordsOf(lines) ==
    IF Len(lines) = 0 THEN <<>>
    ELSE OptSeq(RecordTable[Head(lines)]) \o RecordsOf(Tail(lines))

PendingSeq == OptSeq(pending)

\* the reader has just read a line / has just turned a line into a record
ReadsLine == Len(emitted') = Len(emitted) + 1
LineRead == emitted'[Len(emitted')]
ProcessesRecord == ReadsLine /\ pending'.some

IsStop(rec) ==
    /\ rec.type = "Async"
    /\ rec.msg.kind \in {"Exec", "Status"}
    /\ rec.msg.class = "Stopped"

IsRunning(rec) == rec.type = "Result" /\ rec.msg.class = "Running"

\* C1: can_interact starts true; a parsed record makes it true when it is an
\* Exec or Status record of class Stopped, false when it is a Result record
\* of class Running, and leaves it as it was otherwise; nothing else changes it
C1_CanInteractTracksRecords ==
    /\ can_interact = TRUE
    /\ [][ IF ProcessesRecord
           THEN can_interact' = (CASE IsStop(pending'.val) -> TRUE
                                   [] IsRunning(pending'.val) -> FALSE
                                   [] OTHER -> can_interact)
           ELSE can_interact' = can_interact ]_vars

C1_Witness ==
    /\ Len(emitted) = 3
    /\ emitted[1] = "^running"
    /\ emitted[2] = "=stopped,pid=\"9\""
    /\ emitted[3] = "+stopped"
    /\ can_interact

\* C2: once the debuggee pid is known it never changes again
C2_PidFirstDiscoveryWins ==
    [][ GetDebuggeePid(debugee_pid).some
          => GetDebuggeePid(debugee_pid') = GetDebuggeePid(debugee_pid) ]_vars

C2_Witness ==
    /\ Len(emitted) = 2
    /\ emitted[1] = "=foo,pid=\"42\""
    /\ emitted[2] = "=bar,pid=\"7\""
    /\ reader_pc = "send"
    /\ debugee_pid = "42"

\* the text of a String value between its delimiting quotes
Unquoted(str) == SubSeq(str, 2, Len(str) - 1)

\* a decimal integer: digits, optionally after a plus sign
IsIntegerText(t) ==
    LET d == IF starts_with(t, "+") THEN Drop(t, 1) ELSE t
    IN  Len(d) > 0 /\ \A i \in 1..Len(d) : Ch(d, i) \in Digits

\* a Notify record of unclassified class with a variable pid whose value is a
\* string that is an integer
CarriesPid(rec) ==
    /\ rec.type = "Async"
    /\ rec.msg.kind = "Notify"
    /\ rec.msg.class = "Other"
    /\ \E i \in DOMAIN rec.msg.content :
          LET var == rec.msg.content[i]
          IN  /\ var.name = "pid"
              /\ var.value.kind = "String"
              /\ IsIntegerText(Unquoted(var.value.str))

\* C3: the debuggee pid is unknown at the start and becomes known only when
\* the reader processes a Notify record of unclassified class that carries a
\* pid variable with an integer string value
C3_PidOnlyFromNotify ==
    /\ debugee_pid = UsizeMax
    /\ [][ (debugee_pid = UsizeMax /\ debugee_pid' # UsizeMax)
             => (ProcessesRecord /\ CarriesPid(pending'.val)) ]_vars

C3_Witness ==
    /\ Len(emitted) = 3
    /\ emitted[1] = "=stopped,pid=\"9\""
    /\ emitted[2] = "=foo,pid=[\"1\"],pid=\"abc\""
    /\ emitted[3] = "*stopped,pid=\"5\""
    /\ reader_pc = "send"
    /\ debugee_pid = UsizeMax

\* C4: read_result_record returns the first Result record taken from the
\* channel since the call, after discarding the Async and Stream records in
\* front of it, and leaves the records behind it in the channel in order
C4_ReadResultRecord ==
    [][ (reading = "read_result_record" /\ reading' = "none")
          => LET k == Len(taken')
                 r == call'.ret.val
             IN  /\ call'.ret.some
                 /\ r.type = "Result"
                 /\ k > read_from
                 /\ taken'[k] = r
                 /\ \A i \in (read_from + 1)..(k - 1) :
                       taken'[i].type \in {"Async", "Stream"}
                 /\ r = Head(out_chan)
                 /\ out_chan' = Tail(out_chan) ]_vars

C4_Witness ==
    /\ call.op = "read_result_record"
    /\ reading = "none"
    /\ Len(taken) = 3
    /\ taken[1].type = "Stream"
    /\ taken[2].type = "Async"
    /\ call.ret = Some(taken[3])
    /\ taken[3].msg.token = Some("5")
    /\ taken[3].msg.class = "Done"

ApiStep(op) == call'.n = call.n + 1 /\ call'.op = op

\* C5: interrupt() returns true without a signal when can_interact is true,
\* false without a signal when the pid is unknown, and otherwise requests one
\* Interrupt signal for the pid and returns whether the request succeeded
C5_InterruptOutcomes ==
    [][ ApiStep("interrupt")
          => CASE can_interact ->
                    call'.ret = Some(TRUE) /\ signals' = signals
               [] ~can_interact /\ debugee_pid = UsizeMax ->
                    call'.ret = Some(FALSE) /\ signals' = signals
               [] ~can_interact /\ debugee_pid # UsizeMax ->
                    /\ Len(signals') = Len(signals) + 1
                    /\ SubSeq(signals', 1, Len(signals)) = signals
                    /\ signals'[Len(signals')].pid = debugee_pid
                    /\ signals'[Len(signals')].sig = "Interrupt"
                    /\ call'.ret = Some(signals'[Len(signals')].ok) ]_vars

C5_Witness ==
    /\ call.op = "interrupt"
    /\ call.ret = Some(TRUE)
    /\ ~can_interact
    /\ Len(signals) = 1
    /\ signals[1] = [pid |-> "42", sig |-> "Interrupt", ok |-> TRUE]

KillRequested(sigs, pid) ==
    \E i \in DOMAIN sigs : sigs[i].sig = "Kill" /\ sigs[i].pid = pid

\* C6: terminating or dropping the session requests a kill of the debugger
\* process, and of the debuggee when its pid is known
C6_TerminateKillsBoth ==
    [][ (call' # call /\ call'.op \in {"terminate", "drop"})
          => /\ KillRequested(signals', ChildId)
             /\ debugee_pid # UsizeMax
                  => KillRequested(signals', debugee_pid) ]_vars

\* what the tracked state is after a sequence of records, starting from the
\* state at session start: <<can_interact, debuggee pid>>
PidCarried(rec) ==
    LET hits == {i \in DOMAIN rec.msg.content :
                    /\ rec.msg.content[i].name = "pid"
                    /\ rec.msg.content[i].value.kind = "String"
                    /\ parse_usize(Unquoted(rec.msg.content[i].value.str)).some}
        first == CHOOSE i \in hits : \A j \in hits : i <= j
    IN  parse_usize(Unquoted(rec.msg.content[first].value.str)).val

RECURSIVE Tracked(_)
Tracked(recs) ==
    IF Len(recs) = 0 THEN <<TRUE, UsizeMax>>
    ELSE LET before == Tracked(SubSeq(recs, 1, Len(recs) - 1))
             rec == recs[Len(recs)]
         IN  << CASE IsStop(rec) -> TRUE
                  [] IsRunning(rec) -> FALSE
                  [] OTHER -> before[1],
                IF before[2] = UsizeMax /\ CarriesPid(rec)
                THEN PidCarried(rec) ELSE before[2] >>

\* C7: the effect of a record on the tracked state is applied before the
\* record is put on the channel: the tracked state is that of a prefix of the
\* parsed records at least as long as what the consumer has received, and
\* after the consumer has received a Running result can_interact is false
\* unless the reader has processed a later Exec/Status Stopped record
FreshAfter(recs, k) ==
    /\ k <= Len(recs)
    /\ \E n \in k..Len(recs) :
          <<can_interact, debugee_pid>> = Tracked(SubSeq(recs, 1, n))
    /\ (k > 0 /\ IsRunning(taken[k]))
          => \/ ~can_interact
             \/ \E j \in (k + 1)..Len(recs) : IsStop(recs[j])

C7_StateFreshAtReceive == FreshAfter(RecordsOf(emitted), Len(taken))

C7_Witness ==
    /\ Len(taken) = 1
    /\ IsRunning(taken[1])
    /\ call.op = "read_result_record"
    /\ call.ret = Some(taken[1])
    /\ emitted = <<"^running", "=foo,pid=\"42\"">>
    /\ ~can_interact
    /\ debugee_pid = "42"

\* C8: while the Receiver is open, the records received, followed by those
\* still in the channel and the one being sent, are exactly the records of
\* the lines read, in the order of the lines
C8_RecordsInLineOrder ==
    rx_open => taken \o out_chan \o PendingSeq = RecordsOf(emitted)

C8_Witness ==
    /\ rx_open
    /\ Len(emitted) = 3
    /\ emitted[1] = "(gdb) "
    /\ Len(taken) = 2
    /\ taken[1] # taken[2]

\* C9: a line that fails to parse produces no record, leaves the reader
\* running and reaches no API caller, and the lines after it are parsed as
\* if it had not been there
LineHandled(rec) ==
    IF rec.some
    THEN pending' = rec /\ reader_pc' = "send"
    ELSE /\ reader_pc' = "next_line"
         /\ pending' = None
         /\ out_chan' = out_chan
         /\ call' = call

C9_BadLineSkipped == [][ReadsLine => LineHandled(RecordTable[LineRead])]_vars

C9_Witness ==
    /\ emitted = <<"^running", "^bogus", "+stopped">>
    /\ rx_open
    /\ Len(taken) + Len(out_chan) + Len(PendingSeq) = 2
    /\ reader_pc = "send"
    /\ pending.val.msg.kind = "Status"

\* C10: send_cmd_raw(cmd) puts exactly one string on the input channel: cmd
\* when cmd ends with a newline, cmd followed by one newline otherwise
C10_CommandNewlineTerminated ==
    [][ ApiStep("send_cmd_raw")
          => LET cmd == call'.arg
                 sent == in_chan'[Len(in_chan')]
             IN  /\ Len(in_chan') = Len(in_chan) + 1
                 /\ SubSeq(in_chan', 1, Len(in_chan)) = in_chan
                 /\ ends_with(sent, "\n")
                 /\ ends_with(cmd, "\n") => sent = cmd
                 /\ ~ends_with(cmd, "\n") => sent = cmd \o "\n" ]_vars

C10_Witness ==
    /\ call.op = "send_cmd_raw"
    /\ call.arg = "-exec-run\n"
    /\ in_chan = <<"\n", "-exec-run\n">>

\* C11: the reader task ends when it reads the end of the debugger's stdout,
\* and the writer task ends when it finds the input channel closed and empty
C11_TasksEndWithStreams ==
    [][ /\ polls' # polls => reader_pc' = "done"
        /\ (writer_pc = "recv" /\ writer_pc' # "recv" /\ Len(in_chan) = 0)
              => (~alive /\ writer_pc' = "done") ]_vars

\* C12: a read that finds the output channel closed and empty completes
C12_ReadObservesClosure == [][recv_none' # recv_none => reading' = "none"]_vars

\* the records received, those in the channel and the one being sent
InFlight == taken \o out_chan \o PendingSeq

\* the reader does not move in this step
ReaderHeld ==
    /\ emitted' = emitted
    /\ reader_pc' = reader_pc
    /\ pending' = pending
    /\ can_interact' = can_interact
    /\ debugee_pid' = debugee_pid

\* no record is lost while there is a Receiver: the step adds the record of
\* the line read, if any, behind the records in flight and takes none away
NothingDropped ==
    rx_open'
      => InFlight' = InFlight \o (IF ProcessesRecord THEN <<pending'.val>>
                                  ELSE <<>>)

\* C13 as stated: the channel never holds more than 100 records, while it
\* holds 100 the reader reads no line and applies no state effect, and no
\* record is dropped
C13_ReaderStopsWhenFull ==
    /\ [](Len(out_chan) <= OutputChannelCapacity)
    /\ [][ /\ Len(out_chan) = OutputChannelCapacity => ReaderHeld
           /\ NothingDropped ]_vars

\* C13, amended: the channel never holds more than 100 records; a record
\* that finds the channel full has had its state effect applied and makes
\* the reader suspend on the send, and while the reader is suspended it reads
\* no line and applies no state effect until a record is removed or the
\* Receiver is dropped; no record is dropped while there is a Receiver
C13_ReaderSuspendsOnFullSend ==
    /\ [](Len(out_chan) <= OutputChannelCapacity)
    /\ [][ /\ (Len(out_chan) = OutputChannelCapacity /\ reader_pc = "send")
                => ReaderHeld
           /\ NothingDropped ]_vars

C13_Witness ==
    /\ Len(out_chan) = OutputChannelCapacity
    /\ reader_pc = "send"
    /\ Len(emitted) = 102
    /\ Len(taken) = 1
    /\ emitted[101] = "^running"
    /\ ~can_interact

\* what a parsed value denotes: a String denotes the text between its quotes
RECURSIVE Denoted(_)
Denoted(value) ==
    CASE value.kind = "String" -> Str(Unquoted(value.str))
      [] value.kind = "VariableList" ->
           Obj([i \in DOMAIN value.vars |->
                  Member(value.vars[i].name, Denoted(value.vars[i].value))])
      [] value.kind = "ValueList" ->
           Arr([i \in DOMAIN value.vals |-> Denoted(value.vals[i])])

DenotedContent(content) ==
    [i \in DOMAIN content |->
       Member(content[i].name, Denoted(content[i].value))]

TokenOf(tok) == IF tok = "" THEN None ELSE Some(tok)

IsResultOf(ret, form) ==
    /\ ret.some
    /\ ret.val.type = "Result"
    /\ ret.val.msg.token = TokenOf(form.token)
    /\ ret.val.msg.class = ResultClassFromStr(form.class)
    /\ DenotedContent(ret.val.msg.content)
         = [i \in DOMAIN form.vars |-> form.vars[i].var]

\* C14: parse_line on a result line [digits]^class[,name=value]* yields a
\* Result record with the token exactly when the line began with digits,
\* the class of the keyword, and the variables in wire order, duplicate names
\* kept
C14_ResultLineParsed ==
    (parsed.fn = "parse_line" /\ data.form.kind = "result")
      => IsResultOf(parsed.ret, data.form)

\* the text begins with a result class keyword followed by ',' or a line end
HasResultClass(after) ==
    \E k \in ResultKeywords :
        /\ starts_with(after, k)
        /\ \/ starts_with(Drop(after, Len(k)), ",")
           \/ AtLineEnd(Drop(after, Len(k)))

\* the record of a line that holds a marker and a class and nothing more
BareAsync(form) ==
    Some([type |-> "Async",
          msg |-> [kind |-> AsyncKind(form.marker),
                   token |-> TokenOf(form.token),
                   class |-> AsyncClassFromStr(form.class),
                   content |-> <<>>]])

\* ret is an async record of this kind exactly when the same line with a
\* recognized class parses, and then with the same token and content
ParsesLikeKnownClass(ret, known, kind) ==
    /\ ret.some = known.some
    /\ ret.some => /\ ret.val.type = "Async"
                   /\ known.val.type = "Async"
                   /\ ret.val.msg.kind = kind
                   /\ known.val.msg.kind = kind
                   /\ ret.val.msg.token = known.val.msg.token
                   /\ ret.val.msg.content = known.val.msg.content

\* C15: after ^ anything but one of the five result keywords followed by
\* ',' or the line end is a parse failure; after =, + or * any non-empty run
\* of letters and hyphens is accepted as the class of a Notify, Status or
\* Exec record: alone on the line it yields that record, and with more text
\* behind it the line parses exactly as it does with a recognized class
C15_ClosedResultOpenAsync ==
    (parsed.fn = "parse_line" /\ data.form.kind = "classed")
      => IF data.form.marker = "^"
         THEN ~HasResultClass(data.form.class \o data.form.rest)
                => ~parsed.ret.some
         ELSE /\ data.form.rest \in Terminators
                   => parsed.ret = BareAsync(data.form)
              /\ ParsesLikeKnownClass(
                     parsed.ret,
                     parse_line(data.form.token \o data.form.marker
                                  \o "stopped" \o data.form.rest),
                     AsyncKind(data.form.marker))

C15_Witness ==
    /\ parsed.fn = "parse_line"
    /\ data.text = "42=thread-group-added,a=\"x\",b={}\r\n"
    /\ parsed.ret.some
    /\ parsed.ret.val.type = "Async"
    /\ parsed.ret.val.msg.kind = "Notify"
    /\ parsed.ret.val.msg.class = "Other"
    /\ parsed.ret.val.msg.token = Some("42")
    /\ Len(parsed.ret.val.msg.content) = 2

\* the position of the first quote after the opening one that has no
\* backslash in front of it, 0 if there is none
ClosingQuotes(text) ==
    {i \in 2..Len(text) : Ch(text, i) = "\"" /\ Ch(text, i - 1) # "\\"}

FirstClosingQuote(text) ==
    IF ClosingQuotes(text) = {} THEN 0 ELSE Shortest(ClosingQuotes(text))

\* one quoted string and nothing else
IsQuotedString(text) ==
    /\ starts_with(text, "\"")
    /\ FirstClosingQuote(text) = Len(text)

IsStreamOf(ret, form) ==
    /\ ret.some
    /\ ret.val.type = "Stream"
    /\ ret.val.msg.kind = StreamKind(form.marker)

\* C16: a line with marker ~, @ or & parses, to a Console, Target or Log
\* record, exactly when the marker is followed by one quoted string and the
\* line end; a structured value or text behind the closing quote is a parse
\* failure
C16_StreamLineParsed ==
    (parsed.fn = "parse_line" /\ data.form.kind = "stream")
      => IF IsQuotedString(data.form.body)
         THEN IsStreamOf(parsed.ret, data.form)
         ELSE ~parsed.ret.some

\* C17: a quoted string value ends at the first quote that has no backslash
\* in front of it: parse_constant consumes the text up to that quote and no
\* further, the empty string included
C17_StringEndsAtFirstQuote ==
    (parsed.fn = "parse_constant" /\ FirstClosingQuote(data.text) > 0)
      => /\ parsed.ret.some
         /\ parsed.ret.val.val.str = Take(data.text, FirstClosingQuote(data.text))
         /\ parsed.ret.val.rest = Drop(data.text, FirstClosingQuote(data.text))

\* C18: a line that yields no record (a prompt line, or a line that does not
\* parse) leaves can_interact, the debuggee pid and the output channel as
\* they were, and gives the reader nothing to send
C18_NoRecordNoEffect ==
    [][ (ReadsLine /\ ~RecordTable[LineRead].some)
          => /\ can_interact' = can_interact
             /\ debugee_pid' = debugee_pid
             /\ out_chan' = out_chan
             /\ pending' = None
             /\ reader_pc' = "next_line" ]_vars

C18_Witness ==
    /\ emitted = <<"^running", "(gdb) ", "^bogus">>
    /\ ~can_interact
    /\ debugee_pid = UsizeMax
    /\ reader_pc = "next_line"
    /\ taken \o out_chan = RecordsOf(<<"^running">>)

\* a step of the session API or of its user: a call, a received record, a
\* recv() that found the channel closed, a dropped Debugger or Receiver
ApiMoves ==
    \/ call' # call
    \/ taken' # taken
    \/ reading' # reading
    \/ recv_none' # recv_none
    \/ alive' # alive
    \/ rx_open' # rx_open
    \/ signals' # signals

\* C19: can_interact and the debuggee pid change only when the reader task
\* processes a record; no operation of the session API changes either, and
\* interrupt() leaves can_interact as it was whatever it returns
C19_SingleWriter ==
    [][ /\ (can_interact' # can_interact \/ debugee_pid' # debugee_pid)
              => (ProcessesRecord /\ ~ApiMoves)
        /\ ApiStep("interrupt") => can_interact' = can_interact ]_vars

C19_Witness ==
    /\ call.n = 2
    /\ call.op = "interrupt"
    /\ call.ret = Some(TRUE)
    /\ signals = <<[pid |-> "42", sig |-> "Interrupt", ok |-> TRUE]>>
    /\ emitted = <<"^running", "=foo,pid=\"42\"">>
    /\ ~can_interact
    /\ debugee_pid = "42"

\* the bytes of a sequence of writes, in order
RECURSIVE Bytes(_)
Bytes(chunks) ==
    IF Len(chunks) = 0 THEN "" ELSE Head(chunks) \o Bytes(Tail(chunks))

\* C20: the writer task takes the commands in the order send_cmd_raw put
\* them on the input channel; each command it takes reaches the debugger's
\* stdin once and in full, behind what was written before, and is flushed
\* before the next command is taken
C20_CommandsWrittenInOrder ==
    [][ /\ (writer_pc = "recv" /\ writer_pc' = "flush")
              => /\ wbuf = ""
                 /\ in_chan' = Tail(in_chan)
                 /\ Bytes(gdb_stdin') \o wbuf' = Bytes(gdb_stdin) \o Head(in_chan)
        /\ (writer_pc = "flush" /\ writer_pc' = "recv")
              => /\ wbuf' = ""
                 /\ in_chan' = in_chan
                 /\ Bytes(gdb_stdin') = Bytes(gdb_stdin) \o wbuf ]_vars

\* a parsed value as it is, with the text of each String value
RECURSIVE AsParsed(_)
AsParsed(value) ==
    CASE value.kind = "String" -> Str(value.str)
      [] value.kind = "VariableList" ->
           Obj([i \in DOMAIN value.vars |->
                  Member(value.vars[i].name, AsParsed(value.vars[i].value))])
      [] value.kind = "ValueList" ->
           Arr([i \in DOMAIN value.vals |-> AsParsed(value.vals[i])])

ContentAsParsed(content) ==
    [i \in DOMAIN content |->
       Member(content[i].name, AsParsed(content[i].value))]

HasBackslash(text) == \E i \in 1..Len(text) : Ch(text, i) = "\\"

\* C21: every String value of a parsed record is the text between the
\* delimiting quotes, without the quotes: the value of a variable, at any
\* depth, and the payload of a stream record (checked on text without
\* escapes, where decoding changes nothing)
C21_StringsWithoutQuotes ==
    (parsed.fn = "parse_line" /\ parsed.ret.some)
      => /\ data.form.kind = "result"
              => ContentAsParsed(parsed.ret.val.msg.content)
                   = [i \in DOMAIN data.form.vars |-> data.form.vars[i].var]
         /\ (/\ data.form.kind = "stream"
             /\ IsQuotedString(data.form.body)
             /\ ~HasBackslash(data.form.body))
              => parsed.ret.val.msg.text = Unquoted(data.form.body)

\* C22: a line in which a variable or a nested value is malformed is a
\* ParseError as a whole, and a line that parses yields one record with all
\* its variables
C22_AllOrNothing ==
    parsed.fn = "parse_line"
      => /\ data.form.kind = "malformed" => ~parsed.ret.some
         /\ (data.form.kind = "result" /\ parsed.ret.some)
              => Len(parsed.ret.val.msg.content) = Len(data.form.vars)

\* a Notify record of unclassified class with a variable pid whose value is
\* the text of an integer that fits in usize
FitsPid(rec) ==
    /\ CarriesPid(rec)
    /\ \E i \in DOMAIN rec.msg.content :
          /\ rec.msg.content[i].name = "pid"
          /\ rec.msg.content[i].value.kind = "String"
          /\ parse_usize(Unquoted(rec.msg.content[i].value.str)).some

PidIfFits(opt) ==
    IF opt.some /\ FitsPid(opt.val) THEN Some(PidCarried(opt.val)) ELSE None

\* the pid the lines read so far make known: that of the first line whose
\* record carries a pid that fits
RECURSIVE PidMadeKnown(_)
PidMadeKnown(lines) ==
    IF Len(lines) = 0 THEN None
    ELSE Or(PidMadeKnown(SubSeq(lines, 1, Len(lines) - 1)),
            PidIfFits(RecordOfLine(lines[Len(lines)])))

InterruptsPid(known) ==
    (~can_interact /\ known.some)
      => signals' = Append(signals, [pid |-> known.val, sig |-> "Interrupt",
                                     ok |-> call'.ret.val])

\* C23: once the reader has processed a qualifying Notify record with a pid
\* that fits in usize, the largest value included, get_debuggee_pid() returns
\* that pid, interrupt() of a running debuggee signals it and terminate()
\* kills it
C23_EveryPidBecomesKnown ==
    [][ /\ ApiStep("get_debuggee_pid")
             => call'.ret = Some(PidMadeKnown(emitted))
        /\ ApiStep("interrupt") => InterruptsPid(PidMadeKnown(emitted))
        /\ (ApiStep("terminate") /\ PidMadeKnown(emitted).some)
             => KillRequested(signals', PidMadeKnown(emitted).val) ]_vars

\* C24: with the reader task scheduled fairly, the debuggee that the script
\* starts and then reports as stopped is eventually seen as interactive, and
\* the pid the script reports is eventually the debuggee pid, whether or not
\* the API user takes records from the output channel
C24_EmittedStateReflected ==
    /\ ~can_interact ~> can_interact
    /\ <>(debugee_pid = "42")

====
